---------------------------- MODULE Spec2Model ----------------------------
(***************************************************************************)
(* Model of the firmware update session of tools/fw_update.py (update,     *)
(* send_metadata, send_firmware, send_frame and the __main__ block) over   *)
(* bundle files laid out as tools/fw_protect.py lays them out.             *)
(*                                                                         *)
(* Bytes are integers 0..255 and byte strings are sequences of bytes.      *)
(* The device is the environment: it decides what every ser.read()         *)
(* returns.  A read blocks until the device has produced a reply; a reply  *)
(* of <<>> is a read that returned without data.                           *)
(***************************************************************************)
EXTENDS Integers, Sequences, FiniteSets, TLC

VARIABLES
    firmware_blob,  \* bytes of the bundle file read by update()
    tamperAt,       \* ghost: file offset modified after signing, -1 if none
    debug,          \* the --debug flag
    byteorder,      \* byte order of the host ("H" in struct.pack is native)
    pc,             \* position of the session in update()
    rx,             \* what the pending ser.read() will return
    written,        \* every ser.write() so far, in order
    verified,       \* verifier.verify() returned without raising
    idx,            \* enumerate() index of the send_firmware loop
    acks,           \* the resp values read by send_frame, in order
    mdResp,         \* b_version as first read after the metadata was written
    finalResp,      \* resp read after the zero length frame
    boot_q,         \* last stripped answer to the boot prompt
    error,          \* message of the exception that ended update(), or ""
    sock_open,      \* uart1_sock is open
    p_pc,           \* position in protect_firmware(), "off" when it is not run
    p_version,      \* its version argument
    p_firmware,     \* the bytes of its infile
    p_message,      \* its message argument, a sequence of code points
    p_ops,          \* the cryptographic operations it has run, in order
    p_blob,         \* its local blob
    p_outfile,      \* the bytes it wrote to outfile, << >> while unwritten
    p_error         \* the exception that ended it, or ""

\* the variables of protect_firmware
pvars == << p_pc, p_version, p_firmware, p_message, p_ops, p_blob,
            p_outfile, p_error >>

\* the variables of the update session
svars == << firmware_blob, tamperAt, debug, byteorder, pc, rx, written,
            verified, idx, acks, mdResp, finalResp, boot_q, error, sock_open >>

vars == << svars, pvars >>

----------------------------------------------------------------------------
(* Program constants.                                                      *)

FRAME_SIZE == 256
HEADER == 2
SIG_LEN == 64
META_END == 70

OK == << 79 >>
ERROR == << 69 >>
UPDATE == << 85 >>
BOOT == << 66 >>
META == << 77 >>
CHUNK == << 67 >>

----------------------------------------------------------------------------
(* Bounds of the model.                                                    *)

\* versions 0..MaxVersionModelled are packed into the bundle headers
MaxVersionModelled == 2
\* number of distinct byte values a tampering may add to the original byte
MaxTamperDelta == 1

\* lengths of the bundle part after offset 70 (the payload of send_firmware)
PayloadLens == { 0, 1, 16, 255, 256, 257, 300, 512, 768 }

----------------------------------------------------------------------------
(* Byte strings.                                                           *)

Min(a, b) == IF a < b THEN a ELSE b

\* Python slice s[a:b] with 0 <= a <= b
Slice(s, a, b) == SubSeq(s, a + 1, Min(b, Len(s)))

\* struct.pack("<H", n)
PackLE16(n) == << n % 256, (n \div 256) % 256 >>

\* struct.pack(">H", n)
PackBE16(n) == << (n \div 256) % 256, n % 256 >>

\* struct.pack("H", n): native byte order
PackNative16(order, n) == IF order = "little" THEN PackLE16(n) ELSE PackBE16(n)

\* an unpack in big-endian order
UnpackBE16(b) == 256 * b[1] + b[2]

\* struct.unpack("<H", b)[0]
UnpackLE16(b) == b[1] + 256 * b[2]

\* struct.pack("<HHH", version, len(firmware), len(message))
PackMetadata(version, fwlen, mlen) ==
    PackLE16(version) \o PackLE16(fwlen) \o PackLE16(mlen)

----------------------------------------------------------------------------
(* Signature.  ECDSA over SHA-256 is modelled by a 64 byte tag that depends *)
(* on the length of the signed bytes and on every signed byte: byte j of   *)
(* the tag sums the signed bytes at offsets j, j+64, j+128, ...            *)

\* sum of data[j + 64 * k] for k in lo..hi, by halves
RECURSIVE StrideSum(_, _, _, _)
StrideSum(data, j, lo, hi) ==
    IF lo > hi THEN 0
    ELSE IF lo = hi THEN data[j + SIG_LEN * lo]
    ELSE LET mid == (lo + hi) \div 2
         IN  StrideSum(data, j, lo, mid) + StrideSum(data, j, mid + 1, hi)

ColSum(data, j) ==
    IF j > Len(data) THEN 0
    ELSE StrideSum(data, j, 0, (Len(data) - j) \div SIG_LEN)

\* a signer that hashes the 6 metadata bytes only
SignMetadataOnly(data) ==
    [ j \in 1..SIG_LEN |-> (ColSum(Slice(data, 0, 6), j) + 6) % 256 ]

\* signer.sign(SHA256.new(blob))
Sign(data) == [ j \in 1..SIG_LEN |-> (ColSum(data, j) + Len(data)) % 256 ]

\* verifier.verify(SHA256.new(metadata + firmware), signature) does not raise
Verify(data, signature) == signature = Sign(data)

----------------------------------------------------------------------------
(* Bundle files.                                                           *)

\* the encrypted part of a bundle: opaque bytes, no two equal within 251
Payload(L) == [ i \in 1..L |-> (7 * i + 3) % 251 ]

\* header fields consistent with the payload length where a padded
\* plaintext of that length exists
FwLenFor(L) == IF L > 0 /\ L % 16 = 0 THEN L - 6 ELSE L
MsgLenFor(L) == IF L > 0 /\ L % 16 = 0 THEN 5 ELSE 0

\* signature + metadata + encrypted part, as protect_firmware writes it
Bundle(version, L) ==
    LET body == PackMetadata(version, FwLenFor(L), MsgLenFor(L)) \o Payload(L)
    IN  Sign(body) \o body

\* the file with the byte at offset p changed by d
TamperByte(blob, p, d) ==
    [ i \in 1..Len(blob) |-> IF i = p + 1 THEN (blob[i] + d) % 256 ELSE blob[i] ]

\* offsets that are modified: one in the signature, every offset of the
\* signed part of a short file, both ends of header and payload otherwise
TamperOffsets(blob) ==
    IF Len(blob) <= META_END + 16
    THEN { 10 } \cup SIG_LEN..(Len(blob) - 1)
    ELSE { p \in { 10, 64, 65, 69, 70, 70 + FRAME_SIZE, Len(blob) - 1 } :
             p < Len(blob) }

----------------------------------------------------------------------------
(* Device replies.                                                         *)

NoReply == [ has |-> FALSE, data |-> << >> ]
Reply(r) == [ has |-> TRUE, data |-> r ]

\* what ser.read(size) can return
Replies(size) ==
    IF size = 1
    THEN { << >>, OK, ERROR, << 0 >> }
    ELSE { << >>, OK, ERROR, << 0 >>, << 79, 79 >>, << 69, 69 >>, << 1, 0 >> }

ReadSizeAt(p) ==
    CASE p = "hs_wait"    -> HEADER
      [] p = "md_wait"    -> HEADER
      [] p = "md_version" -> 2
      [] p = "md_size"    -> HEADER
      [] p = "md_mlength" -> HEADER
      [] p = "fw_wait"    -> HEADER
      [] p = "fw_ack"     -> 1
      [] p = "fw_final"   -> 1

ReadPcs == { "hs_wait", "md_wait", "md_version", "md_size", "md_mlength",
             "fw_wait", "fw_ack", "fw_final" }

----------------------------------------------------------------------------
(* Writes.                                                                 *)

Write(tok, bytes) == written' = Append(written, [ tok |-> tok, bytes |-> bytes ])

\* an exception that is recorded and then swallowed
RaiseAndGoOn(msg) ==
    /\ pc' = "boot_prompt"
    /\ error' = msg

\* raise: the exception leaves update() and ends the process
Raise(msg) ==
    /\ pc' = "aborted"
    /\ error' = msg

----------------------------------------------------------------------------
Init ==
    /\ \E v \in 0..MaxVersionModelled, L \in PayloadLens :
         \/ /\ firmware_blob = Bundle(v, L)
            /\ tamperAt = -1
         \/ \E p \in TamperOffsets(Bundle(v, L)), d \in 1..MaxTamperDelta :
              /\ firmware_blob = TamperByte(Bundle(v, L), p, d)
              /\ tamperAt = p
    /\ debug \in BOOLEAN
    /\ byteorder \in { "little", "big" }
    /\ pc = "start"
    /\ rx = NoReply
    /\ written = << >>
    /\ verified = FALSE
    /\ idx = 0
    /\ acks = << >>
    /\ mdResp = << >>
    /\ finalResp = << >>
    /\ boot_q = << >>
    /\ error = ""
    /\ sock_open = TRUE
    /\ p_pc = "off"
    /\ p_version = 0
    /\ p_firmware = << >>
    /\ p_message = << >>
    /\ p_ops = << >>
    /\ p_blob = << >>
    /\ p_outfile = << >>
    /\ p_error = ""

----------------------------------------------------------------------------
(* The device answers a pending read.                                      *)

DeviceReply ==
    /\ pc \in ReadPcs
    /\ ~rx.has
    /\ \E r \in Replies(ReadSizeAt(pc)) : rx' = Reply(r)
    /\ UNCHANGED << firmware_blob, tamperAt, debug, byteorder, pc, written,
                    verified, idx, acks, mdResp, finalResp, boot_q, error, sock_open >>
    /\ UNCHANGED pvars

----------------------------------------------------------------------------
(* update(): lines 178-195.                                                *)

UpdateBegin ==
    /\ pc = "start"
    /\ Write("UPDATE", UPDATE)
    /\ pc' = "hs_wait"
    /\ UNCHANGED << firmware_blob, tamperAt, debug, byteorder, rx,
                    verified, idx, acks, mdResp, finalResp, boot_q, error, sock_open >>
    /\ UNCHANGED pvars

HandshakePoll ==
    /\ pc = "hs_wait"
    /\ rx.has
    /\ rx' = NoReply
    /\ pc' = IF rx.data = OK THEN "verify" ELSE "hs_wait"
    /\ UNCHANGED << firmware_blob, tamperAt, debug, byteorder, written,
                    verified, idx, acks, mdResp, finalResp, boot_q, error, sock_open >>
    /\ UNCHANGED pvars

----------------------------------------------------------------------------
(* update(): lines 197-219.                                                *)

Signature(blob) == Slice(blob, 0, SIG_LEN)
Metadata(blob) == Slice(blob, SIG_LEN, META_END)
Firmware(blob) == SubSeq(blob, META_END + 1, Len(blob))

VerifySignature ==
    /\ pc = "verify"
    /\ IF Verify(Metadata(firmware_blob) \o Firmware(firmware_blob),
                 Signature(firmware_blob))
       THEN /\ verified' = TRUE
            /\ pc' = "md_start"
            /\ UNCHANGED error
       ELSE /\ Raise("Invalid signature, aborting.")
            /\ UNCHANGED verified
    /\ UNCHANGED << firmware_blob, tamperAt, debug, byteorder, rx, written,
                    idx, acks, mdResp, finalResp, boot_q, sock_open >>
    /\ UNCHANGED pvars

----------------------------------------------------------------------------
(* send_metadata(ser, signature + metadata, debug): lines 51-109.          *)

\* an argument that is the whole file
MetadataArgWhole(blob) == blob

\* the argument update() passes at line 226
MetadataArg(blob) == Signature(blob) \o Metadata(blob)

\* struct.unpack("<HH", metadata[64:68])
ParsedVersion(metadata) == UnpackLE16(Slice(metadata, 64, 66))
ParsedSize(metadata) == UnpackLE16(Slice(metadata, 66, 68))

\* a check that lets every version through
VersionRejectedNever(version, dbg) == FALSE

\* line 60
VersionRejected(version, dbg) == version = 0 /\ ~dbg

SendMetadataBegin ==
    /\ pc = "md_start"
    /\ IF VersionRejected(ParsedVersion(MetadataArg(firmware_blob)), debug)
       THEN /\ Raise("Invalid version request, aborting.")
            /\ UNCHANGED written
       ELSE /\ Write("META", META)
            /\ pc' = "md_wait"
            /\ UNCHANGED error
    /\ UNCHANGED << firmware_blob, tamperAt, debug, byteorder, rx,
                    verified, idx, acks, mdResp, finalResp, boot_q, sock_open >>
    /\ UNCHANGED pvars

\* lines 66-70
MetaPoll ==
    /\ pc = "md_wait"
    /\ rx.has
    /\ rx' = NoReply
    /\ IF rx.data = OK
       THEN /\ Write("METADATA", MetadataArg(firmware_blob))
            /\ pc' = "md_version"
       ELSE UNCHANGED << written, pc >>
    /\ UNCHANGED << firmware_blob, tamperAt, debug, byteorder,
                    verified, idx, acks, mdResp, finalResp, boot_q, error, sock_open >>
    /\ UNCHANGED pvars

\* lines 78-84: the reply read after the metadata was written
VersionReplyFatal(b_version) == b_version = ERROR

ReadVersion ==
    /\ pc = "md_version"
    /\ rx.has
    /\ rx' = NoReply
    /\ mdResp' = << rx.data >>
    /\ IF VersionReplyFatal(rx.data)
       THEN Raise("Invalid version request, aborting.")
       ELSE IF Len(rx.data) # 2
            THEN Raise("struct.error: unpack requires a buffer of 2 bytes")
            ELSE /\ pc' = "md_size"
                 /\ UNCHANGED error
    /\ UNCHANGED << firmware_blob, tamperAt, debug, byteorder, written,
                    verified, idx, acks, finalResp, boot_q, sock_open >>
    /\ UNCHANGED pvars

\* lines 91-95
ReadSize ==
    /\ pc = "md_size"
    /\ rx.has
    /\ rx' = NoReply
    /\ pc' = IF Len(rx.data) = 2 THEN "md_mlength" ELSE "md_size"
    /\ UNCHANGED << firmware_blob, tamperAt, debug, byteorder, written,
                    verified, idx, acks, mdResp, finalResp, boot_q, error, sock_open >>
    /\ UNCHANGED pvars

\* lines 102-109
ReadMLength ==
    /\ pc = "md_mlength"
    /\ rx.has
    /\ rx' = NoReply
    /\ pc' = IF Len(rx.data) = 2 THEN "fw_start" ELSE "md_mlength"
    /\ UNCHANGED << firmware_blob, tamperAt, debug, byteorder, written,
                    verified, idx, acks, mdResp, finalResp, boot_q, error, sock_open >>
    /\ UNCHANGED pvars

----------------------------------------------------------------------------
(* send_firmware(ser, firmware, debug) and send_frame: lines 111-175.      *)

SendFirmwareBegin ==
    /\ pc = "fw_start"
    /\ Write("CHUNK", CHUNK)
    /\ pc' = "fw_wait"
    /\ UNCHANGED << firmware_blob, tamperAt, debug, byteorder, rx,
                    verified, idx, acks, mdResp, finalResp, boot_q, error, sock_open >>
    /\ UNCHANGED pvars

\* a poll that sends the CHUNK token again after a reply other than OK
ChunkPollResend ==
    /\ pc = "fw_wait"
    /\ rx.has
    /\ rx' = NoReply
    /\ pc' = IF rx.data = OK THEN "fw_frame" ELSE "fw_start"
    /\ UNCHANGED << firmware_blob, tamperAt, debug, byteorder, written,
                    verified, idx, acks, mdResp, finalResp, boot_q, error, sock_open >>
    /\ UNCHANGED pvars

\* lines 119-120
ChunkPoll ==
    /\ pc = "fw_wait"
    /\ rx.has
    /\ rx' = NoReply
    /\ pc' = IF rx.data = OK THEN "fw_frame" ELSE "fw_wait"
    /\ UNCHANGED << firmware_blob, tamperAt, debug, byteorder, written,
                    verified, idx, acks, mdResp, finalResp, boot_q, error, sock_open >>
    /\ UNCHANGED pvars

\* a loop over the whole frames only
MoreFramesWhole(firmware, i) == (i + 1) * FRAME_SIZE <= Len(firmware)

\* line 126: frame_start of iteration i is in range(0, len(firmware), FRAME_SIZE)
MoreFrames(firmware, i) == i * FRAME_SIZE < Len(firmware)

\* a slice that is one byte short
FrameDataShort(firmware, i) ==
    Slice(firmware, i * FRAME_SIZE, i * FRAME_SIZE + FRAME_SIZE - 1)

\* a slice that ignores frame_start
FrameDataFirst(firmware, i) == Slice(firmware, 0, FRAME_SIZE)

\* line 127: firmware[frame_start : frame_start + FRAME_SIZE]
FrameData(firmware, i) == Slice(firmware, i * FRAME_SIZE, i * FRAME_SIZE + FRAME_SIZE)

\* line 133: struct.pack(f"H{len(data)}s", length, data)
PackFrame(order, data) == PackNative16(order, Len(data)) \o data

\* a check that only refuses the ERROR byte
FrameAcceptedLax(resp) == resp # ERROR

\* line 172
FrameAccepted(resp) == resp = OK

\* a final check that only refuses the ERROR byte
SentinelAcceptedLax(resp) == resp # ERROR

\* line 149
SentinelAccepted(resp) == resp = OK

\* lines 126-137 and 160: one iteration up to the write of send_frame
SendFrame ==
    /\ pc = "fw_frame"
    /\ MoreFrames(Firmware(firmware_blob), idx)
    /\ Write("FRAME", PackFrame(byteorder, FrameData(Firmware(firmware_blob), idx)))
    /\ pc' = "fw_ack"
    /\ UNCHANGED << firmware_blob, tamperAt, debug, byteorder, rx,
                    verified, idx, acks, mdResp, finalResp, boot_q, error, sock_open >>
    /\ UNCHANGED pvars

\* lines 168-173: the read of send_frame and the end of the iteration
SendFrameAck ==
    /\ pc = "fw_ack"
    /\ rx.has
    /\ rx' = NoReply
    /\ acks' = Append(acks, rx.data)
    /\ IF FrameAccepted(rx.data)
       THEN /\ idx' = idx + 1
            /\ pc' = "fw_frame"
            /\ UNCHANGED error
       ELSE /\ Raise("ERROR: Bootloader responded with resp")
            /\ UNCHANGED idx
    /\ UNCHANGED << firmware_blob, tamperAt, debug, byteorder, written,
                    verified, mdResp, finalResp, boot_q, sock_open >>
    /\ UNCHANGED pvars

\* line 145
SendSentinel ==
    /\ pc = "fw_frame"
    /\ ~MoreFrames(Firmware(firmware_blob), idx)
    /\ Write("SENTINEL", PackBE16(0))
    /\ pc' = "fw_final"
    /\ UNCHANGED << firmware_blob, tamperAt, debug, byteorder, rx,
                    verified, idx, acks, mdResp, finalResp, boot_q, error, sock_open >>
    /\ UNCHANGED pvars

\* lines 148-156
FinalAck ==
    /\ pc = "fw_final"
    /\ rx.has
    /\ rx' = NoReply
    /\ finalResp' = << rx.data >>
    /\ IF SentinelAccepted(rx.data)
       THEN /\ pc' = "boot_prompt"
            /\ UNCHANGED error
       ELSE Raise("ERROR: Bootloader responded to zero length frame with resp")
    /\ UNCHANGED << firmware_blob, tamperAt, debug, byteorder, written,
                    verified, idx, acks, mdResp, boot_q, sock_open >>
    /\ UNCHANGED pvars

----------------------------------------------------------------------------
(* update(): lines 233-238, and __main__: lines 267-269.                   *)

SPACE == 32

RECURSIVE LStrip(_)
LStrip(s) == IF s # << >> /\ Head(s) = SPACE THEN LStrip(Tail(s)) ELSE s

RECURSIVE RStrip(_)
RStrip(s) ==
    IF s # << >> /\ s[Len(s)] = SPACE THEN RStrip(SubSeq(s, 1, Len(s) - 1)) ELSE s

\* str(...).strip()
Strip(s) == RStrip(LStrip(s))

\* what the operator can type: "B", " B ", "b", "", "BB", "U"
Inputs == { << 66 >>, << 32, 66, 32 >>, << 98 >>, << >>, << 66, 66 >>, << 85 >> }

\* a prompt that takes any non-empty answer
BootConfirmedAny(answer) == answer # << >>

\* line 236
BootConfirmed(answer) == answer = << 66 >>

BootPrompt ==
    /\ pc = "boot_prompt"
    /\ \E inp \in Inputs :
         /\ boot_q' = Strip(inp)
         /\ IF BootConfirmed(Strip(inp))
            THEN /\ Write("BOOT", BOOT)
                 /\ pc' = "returned"
            ELSE UNCHANGED << written, pc >>
    /\ UNCHANGED << firmware_blob, tamperAt, debug, byteorder, rx,
                    verified, idx, acks, mdResp, finalResp, error, sock_open >>
    /\ UNCHANGED pvars

\* line 269, reached when update() returns
CloseSocket ==
    /\ pc = "returned"
    /\ sock_open' = FALSE
    /\ pc' = "exit"
    /\ UNCHANGED << firmware_blob, tamperAt, debug, byteorder, rx, written,
                    verified, idx, acks, mdResp, finalResp, boot_q, error >>
    /\ UNCHANGED pvars

----------------------------------------------------------------------------
Session ==
    \/ UpdateBegin
    \/ HandshakePoll
    \/ VerifySignature
    \/ SendMetadataBegin
    \/ MetaPoll
    \/ ReadVersion
    \/ ReadSize
    \/ ReadMLength
    \/ SendFirmwareBegin
    \/ ChunkPoll
    \/ SendFrame
    \/ SendFrameAck
    \/ SendSentinel
    \/ FinalAck
    \/ BootPrompt
    \/ CloseSocket

Next ==
    \/ DeviceReply
    \/ Session

Spec == Init /\ [][Next]_vars

\* the session's own steps are taken when they can be; the device and the
\* operator are under no obligation
FairSpec == Spec /\ WF_vars(Session)

TypeOK ==
    /\ pc \in { "idle", "start", "hs_wait", "verify", "md_start", "md_wait",
                "md_version", "md_size", "md_mlength", "fw_start", "fw_wait",
                "fw_frame", "fw_ack", "fw_final", "boot_prompt", "returned",
                "exit", "aborted" }
    /\ rx.has \in BOOLEAN
    /\ idx \in Nat
    /\ verified \in BOOLEAN
    /\ sock_open \in BOOLEAN

----------------------------------------------------------------------------
(* protect_firmware(infile, outfile, version, message) of fw_protect.py.   *)

MAX_VERSION == 65535
MAX_MESSAGE_SIZE == 1024
MAX_FIRMWARE_SIZE == 32768
BLOCK == 16

\* one character of str.encode(): UTF-8 of a code point below 65536
EncodeChar(c) ==
    IF c < 128 THEN << c >>
    ELSE IF c < 2048 THEN << 192 + (c \div 64), 128 + (c % 64) >>
    ELSE << 224 + (c \div 4096), 128 + ((c \div 64) % 64), 128 + (c % 64) >>

\* message.encode()
RECURSIVE Encode(_)
Encode(m) ==
    IF Len(m) = 0 THEN << >>
    ELSE IF Len(m) = 1 THEN EncodeChar(m[1])
    ELSE Encode(SubSeq(m, 1, Len(m) \div 2))
             \o Encode(SubSeq(m, Len(m) \div 2 + 1, Len(m)))

\* a padding that adds nothing to aligned data
PadToBoundary(data) ==
    LET k == (BLOCK - (Len(data) % BLOCK)) % BLOCK
    IN  data \o [ i \in 1..k |-> k ]

\* Crypto.Util.Padding.pad(data, 16): PKCS#7, 1 to 16 bytes of padding
Pad(data) ==
    LET k == BLOCK - (Len(data) % BLOCK)
    IN  data \o [ i \in 1..k |-> k ]

\* aes.encrypt(padded): a keyed, length preserving map of whole blocks
Encrypt(padded) ==
    [ i \in 1..Len(padded) |-> (padded[i] + 91 + 17 * ((i - 1) % BLOCK)) % 256 ]

\* struct.pack accepts n for the format H
PackableH(n) == 0 <= n /\ n <= 65535

\* lines 39-41: the three asserts
SizeChecksPass(version, message, firmware) ==
    /\ version <= MAX_VERSION
    /\ Len(message) <= MAX_MESSAGE_SIZE
    /\ Len(firmware) <= MAX_FIRMWARE_SIZE

\* the plaintext of line 67 before padding
Plaintext(firmware, message) == firmware \o Encode(message) \o << 0 >>

\* inputs: firmware images, messages and versions
FirmwareImage(n) == [ i \in 1..n |-> (5 * i + 1) % 256 ]
Repeat(c, n) == [ i \in 1..n |-> c ]
Hello == << 104, 101, 108, 108, 111 >>

ProtectVersions == { -1, 0, 1, 3, 258, MAX_VERSION, MAX_VERSION + 1 }
ProtectFirmwareLens == { 0, 15, 100, 300 }
ProtectMessages == { << >>, Hello, << 233 >>, << 104, 233, 8364 >> }

\* every small input, and the size limits one at a time
ProtectInputs ==
    [ version : ProtectVersions, fwlen : ProtectFirmwareLens, message : ProtectMessages ]
    \cup [ version : { 0, 3, MAX_VERSION },
           fwlen : { MAX_FIRMWARE_SIZE, MAX_FIRMWARE_SIZE + 1 },
           message : { Hello } ]
    \cup [ version : { 3 },
           fwlen : { 100, MAX_FIRMWARE_SIZE },
           message : { Repeat(97, MAX_MESSAGE_SIZE), Repeat(97, MAX_MESSAGE_SIZE + 1),
                       Repeat(233, MAX_MESSAGE_SIZE) } ]

\* the session is run on the bundles of at most this many bytes
MaxSessionBundle == 400

ProtectInit ==
    /\ \E inp \in ProtectInputs :
         /\ p_version = inp.version
         /\ p_firmware = FirmwareImage(inp.fwlen)
         /\ p_message = inp.message
    /\ p_pc = "start"
    /\ p_ops = << >>
    /\ p_blob = << >>
    /\ p_outfile = << >>
    /\ p_error = ""

\* lines 32-41
ProtectCheck ==
    /\ p_pc = "start"
    /\ IF SizeChecksPass(p_version, p_message, p_firmware)
       THEN /\ p_pc' = "keys"
            /\ UNCHANGED p_error
       ELSE /\ p_pc' = "failed"
            /\ p_error' = "AssertionError"
    /\ UNCHANGED << p_version, p_firmware, p_message, p_ops, p_blob, p_outfile >>
    /\ UNCHANGED svars

\* lines 46-53
ProtectLoadKeys ==
    /\ p_pc = "keys"
    /\ p_ops' = Append(p_ops, "ECC.import_key")
    /\ p_pc' = "pack"
    /\ UNCHANGED << p_version, p_firmware, p_message, p_blob, p_outfile, p_error >>
    /\ UNCHANGED svars

\* lines 57-63
ProtectPack ==
    /\ p_pc = "pack"
    /\ IF PackableH(p_version) /\ PackableH(Len(p_firmware)) /\ PackableH(Len(p_message))
       THEN /\ p_blob' = PackMetadata(p_version, Len(p_firmware), Len(p_message))
            /\ p_ops' = p_ops \o << "AES.new", "DSS.new" >>
            /\ p_pc' = "encrypt"
            /\ UNCHANGED p_error
       ELSE /\ p_pc' = "failed"
            /\ p_error' = "struct.error"
            /\ UNCHANGED << p_blob, p_ops >>
    /\ UNCHANGED << p_version, p_firmware, p_message, p_outfile >>
    /\ UNCHANGED svars

\* line 67
ProtectEncrypt ==
    /\ p_pc = "encrypt"
    /\ p_blob' = p_blob \o Encrypt(Pad(Plaintext(p_firmware, p_message)))
    /\ p_ops' = Append(p_ops, "aes.encrypt")
    /\ p_pc' = "sign"
    /\ UNCHANGED << p_version, p_firmware, p_message, p_outfile, p_error >>
    /\ UNCHANGED svars

\* lines 70-71
ProtectSign ==
    /\ p_pc = "sign"
    /\ p_blob' = Sign(p_blob) \o p_blob
    /\ p_ops' = p_ops \o << "SHA256.new", "signer.sign" >>
    /\ p_pc' = "write"
    /\ UNCHANGED << p_version, p_firmware, p_message, p_outfile, p_error >>
    /\ UNCHANGED svars

\* lines 74-75
ProtectWrite ==
    /\ p_pc = "write"
    /\ p_outfile' = p_blob
    /\ p_pc' = "done"
    /\ UNCHANGED << p_version, p_firmware, p_message, p_ops, p_blob, p_error >>
    /\ UNCHANGED svars

Protect ==
    \/ ProtectCheck
    \/ ProtectLoadKeys
    \/ ProtectPack
    \/ ProtectEncrypt
    \/ ProtectSign
    \/ ProtectWrite

\* fw_update.py, lines 241-267 and 178-181: the tool is started on the
\* bundle that protect_firmware wrote
RunUpdate ==
    /\ p_pc = "done"
    /\ pc = "idle"
    /\ Len(p_outfile) <= MaxSessionBundle
    /\ firmware_blob' = p_outfile
    /\ debug' \in BOOLEAN
    /\ byteorder' \in { "little", "big" }
    /\ sock_open' = TRUE
    /\ pc' = "start"
    /\ UNCHANGED << tamperAt, rx, written, verified, idx, acks, mdResp,
                    finalResp, boot_q, error >>
    /\ UNCHANGED pvars

ChainInit ==
    /\ ProtectInit
    /\ firmware_blob = << >>
    /\ tamperAt = -1
    /\ debug = FALSE
    /\ byteorder = "little"
    /\ pc = "idle"
    /\ rx = NoReply
    /\ written = << >>
    /\ verified = FALSE
    /\ idx = 0
    /\ acks = << >>
    /\ mdResp = << >>
    /\ finalResp = << >>
    /\ boot_q = << >>
    /\ error = ""
    /\ sock_open = FALSE

ChainNext ==
    \/ Protect
    \/ RunUpdate
    \/ DeviceReply
    \/ Session

\* protect_firmware, then update() on the bundle it wrote
ChainSpec == ChainInit /\ [][ChainNext]_vars

----------------------------------------------------------------------------
(* What was written, by call site.                                         *)

TokIndexes(t) == { i \in DOMAIN written : written[i].tok = t }
HasTok(t) == TokIndexes(t) # { }
NumTok(t) == Cardinality(TokIndexes(t))

\* the FRAME writes in send order
FrameWrites == SelectSeq(written, LAMBDA w : w.tok = "FRAME")

\* the data section of a written frame: what follows the two length bytes
DataOf(frame) == SubSeq(frame, HEADER + 1, Len(frame))

RECURSIVE ConcatData(_)
ConcatData(ws) ==
    IF ws = << >> THEN << >> ELSE DataOf(Head(ws).bytes) \o ConcatData(Tail(ws))

CeilDiv(a, b) == (a + b - 1) \div b

PayloadLen == Len(Firmware(firmware_blob))

\* an exception has left update()
Aborted == error # ""

----------------------------------------------------------------------------
(* C1: the signature check precedes every write to the channel; a failed   *)
(* check aborts the session with nothing written to the device.            *)
C1_VerifyBeforeAnyWrite ==
    /\ written # << >> => verified
    /\ error = "Invalid signature, aborting." => written = << >>

(* C2: a bundle whose bytes from offset 64 on differ from the signed bytes *)
(* never passes the check of update(): the session does not get past the   *)
(* verification, ends with "Invalid signature" when it ends, and writes no *)
(* META token, metadata, CHUNK token or data frame.                        *)
Tampered == tamperAt >= SIG_LEN

C2_TamperedBundleNeverSent ==
    Tampered =>
        /\ ~verified
        /\ pc \in { "start", "hs_wait", "verify", "aborted" }
        /\ pc = "aborted" => error = "Invalid signature, aborting."
        /\ \A i \in DOMAIN written :
             written[i].tok \notin { "META", "METADATA", "CHUNK", "FRAME", "SENTINEL" }

C2_Witness ==
    /\ tamperAt >= META_END
    /\ pc = "aborted"
    /\ error = "Invalid signature, aborting."

(* C3: when the device answers OK to the first k data frames and anything  *)
(* else (or nothing) to frame k+1, the session is aborted at frame k+1 and *)
(* frame k+1 stays the last write: no later data frame, no zero length     *)
(* frame and no BOOT token.                                                *)
C3_RejectedFrameStopsSession ==
    \A k \in DOMAIN acks :
        acks[k] # OK =>
            /\ k = Len(acks)
            /\ \A j \in 1..(k - 1) : acks[j] = OK
            /\ Aborted
            /\ pc = "aborted"
            /\ NumTok("FRAME") = k
            /\ written[Len(written)].tok = "FRAME"
            /\ ~HasTok("SENTINEL")
            /\ ~HasTok("BOOT")

C3_Witness ==
    /\ PayloadLen > 2 * FRAME_SIZE
    /\ Len(acks) = 2
    /\ acks[1] = OK
    /\ acks[2] = << >>
    /\ pc = "aborted"

(* C4: data frames go out in index order, one at a time: when frame i+1 is *)
(* written, exactly one acknowledgment byte has been read for each of the  *)
(* frames 1..i and each was OK; at most one frame is unacknowledged.       *)
C4_LockstepInOrder ==
    LET n == NumTok("FRAME") IN
    /\ Len(acks) \in { n - 1, n }
    /\ (Len(acks) = n - 1) <=> (pc = "fw_ack")
    /\ \A i \in 1..(n - 1) : Len(acks[i]) = 1 /\ acks[i] = OK
    /\ \A i \in 1..n :
         DataOf(FrameWrites[i].bytes) =
             Slice(Firmware(firmware_blob), (i - 1) * FRAME_SIZE, i * FRAME_SIZE)

C4_Witness ==
    /\ NumTok("FRAME") = 3
    /\ pc = "fw_ack"
    /\ rx.has

(* C5: once the zero length frame has been written (every data frame was   *)
(* answered OK), exactly ceil(L / 256) data frames were sent, each with 1  *)
(* to 256 payload bytes, all but the last with 256, and their payloads in  *)
(* send order are the payload; L = 0 gives no data frame, L = 300 gives    *)
(* 256 and 44 bytes.                                                       *)
C5_Chunking ==
    HasTok("SENTINEL") =>
        LET n == NumTok("FRAME")
            fw == FrameWrites
        IN  /\ n = CeilDiv(PayloadLen, FRAME_SIZE)
            /\ \A i \in 1..n : Len(DataOf(fw[i].bytes)) \in 1..FRAME_SIZE
            /\ \A i \in 1..(n - 1) : Len(DataOf(fw[i].bytes)) = FRAME_SIZE
            /\ ConcatData(fw) = Firmware(firmware_blob)
            /\ PayloadLen = 0 => n = 0
            /\ PayloadLen = 300 =>
                 /\ n = 2
                 /\ Len(DataOf(fw[1].bytes)) = 256
                 /\ Len(DataOf(fw[2].bytes)) = 44

C5_Witness ==
    /\ PayloadLen = 300
    /\ HasTok("SENTINEL")
    /\ finalResp = << OK >>

(* C6: the zero length frame is written at most once, and only when every  *)
(* data frame has been answered OK; send_firmware returns only if the byte *)
(* read after it is OK; any other final response aborts the session and    *)
(* no BOOT token is written.                                               *)
C6_SentinelAndFinalAck ==
    /\ NumTok("SENTINEL") <= 1
    /\ HasTok("SENTINEL") =>
         /\ NumTok("FRAME") = CeilDiv(PayloadLen, FRAME_SIZE)
         /\ Len(acks) = NumTok("FRAME")
         /\ \A i \in DOMAIN acks : acks[i] = OK
         /\ written[Len(written)].tok \in { "SENTINEL", "BOOT" }
    /\ pc \in { "boot_prompt", "returned", "exit" } =>
         /\ NumTok("SENTINEL") = 1
         /\ finalResp = << OK >>
    /\ (finalResp # << >> /\ finalResp # << OK >>) =>
         /\ pc = "aborted"
         /\ Aborted
         /\ ~HasTok("BOOT")
    /\ HasTok("BOOT") => finalResp = << OK >>

C6_Witness ==
    /\ pc = "aborted"
    /\ finalResp = << ERROR >>
    /\ Len(acks) = 3

(* C7: whatever the device does, the session eventually completes or       *)
(* aborts; in particular the wait for the reply to UPDATE ends.            *)
C7_SessionTerminates ==
    <>(pc \in { "boot_prompt", "returned", "exit", "aborted" })

(* C8: once the session has aborted, nothing more is written to the        *)
(* channel and the session stays aborted.                                  *)
C8_NothingWrittenAfterAbort ==
    [][Aborted => (written' = written /\ Aborted')]_vars

C8_Witness ==
    /\ Aborted
    /\ pc = "aborted"
    /\ error = "ERROR: Bootloader responded with resp"
    /\ HasTok("FRAME")

(* C9: after the metadata bytes are written, a reply other than OK aborts  *)
(* the session; it never goes on to the CHUNK token or a data frame.       *)
C9_NonOkMetadataReplyAborts ==
    (mdResp # << >> /\ mdResp[1] # OK) =>
        /\ pc = "aborted"
        /\ ~HasTok("CHUNK")
        /\ ~HasTok("FRAME")

(* C10: every frame send_firmware writes is the 2 byte big-endian length   *)
(* of its payload followed by exactly that many payload bytes.             *)
C10_FramesBigEndianLength ==
    \A i \in DOMAIN written :
        written[i].tok \in { "FRAME", "SENTINEL" } =>
            LET b == written[i].bytes IN
            /\ Len(b) >= HEADER
            /\ Len(b) - HEADER <= FRAME_SIZE
            /\ SubSeq(b, 1, HEADER) = PackBE16(Len(b) - HEADER)

----------------------------------------------------------------------------
(* C13: the channel is closed on every exit path of the run, after normal  *)
(* completion and after every abort raised inside update().                *)
C13_ChannelClosedOnExit ==
    pc \in { "exit", "aborted" } => ~sock_open

(* C15 as stated: when the session waits for the device in the metadata    *)
(* phase it has written the META token followed by exactly the 6 header    *)
(* bytes of the bundle and no other bundle bytes.                          *)
C15_MetaThenSixHeaderBytes ==
    pc \in { "md_wait", "md_version", "md_size", "md_mlength" } =>
        /\ Len(written) >= 2
        /\ written[Len(written) - 1].tok = "META"
        /\ written[Len(written)].tok = "METADATA"
        /\ written[Len(written)].bytes = Metadata(firmware_blob)

(* C15 amended: the session writes the META token and waits for the        *)
(* device's OK with nothing else written; it then writes, once, exactly    *)
(* the first 70 bytes of the verified bundle (the 64 signature bytes and   *)
(* the 6 header bytes, no byte of the encrypted part) and only then reads  *)
(* the device's reply.                                                     *)
C15_MetaThenSignatureAndHeader ==
    /\ NumTok("META") <= 1
    /\ NumTok("METADATA") <= 1
    /\ pc = "md_wait" =>
         /\ written[Len(written)] = [ tok |-> "META", bytes |-> META ]
         /\ ~HasTok("METADATA")
    /\ pc \in { "md_version", "md_size", "md_mlength" } =>
         written[Len(written)].tok = "METADATA"
    /\ \A i \in DOMAIN written :
         written[i].tok = "METADATA" =>
             /\ verified
             /\ i > 1
             /\ written[i - 1] = [ tok |-> "META", bytes |-> META ]
             /\ Len(written[i].bytes) = META_END
             /\ written[i].bytes = SubSeq(firmware_blob, 1, META_END)
             /\ written[i].bytes =
                    Signature(firmware_blob) \o Metadata(firmware_blob)

C15_Witness ==
    /\ pc = "md_version"
    /\ PayloadLen = 300
    /\ written[Len(written)].tok = "METADATA"

(* C16: the session only moves forward through Idle, Handshaking,          *)
(* MetadataExchange, Transferring, AwaitingCompletionAck and Completed (or *)
(* to Aborted, which it never leaves); on the wire UPDATE, META, the       *)
(* metadata, CHUNK, the data frames and the zero length frame appear in    *)
(* this order, and each of them except the data frames at most once.       *)
PhaseRank(p) ==
    CASE p = "start" -> 0
      [] p \in { "hs_wait", "verify" } -> 1
      [] p \in { "md_start", "md_wait", "md_version", "md_size", "md_mlength" } -> 2
      [] p \in { "fw_start", "fw_wait", "fw_frame", "fw_ack" } -> 3
      [] p = "fw_final" -> 4
      [] p \in { "boot_prompt", "returned", "exit" } -> 5
      [] p = "aborted" -> 6

TokRank(t) ==
    CASE t = "UPDATE" -> 1
      [] t = "META" -> 2
      [] t = "METADATA" -> 3
      [] t = "CHUNK" -> 4
      [] t = "FRAME" -> 5
      [] t = "SENTINEL" -> 6
      [] t = "BOOT" -> 7

WireInOrder(w) ==
    \A i \in 1..(Len(w) - 1) :
        \/ TokRank(w[i].tok) < TokRank(w[i + 1].tok)
        \/ w[i].tok = "FRAME" /\ w[i + 1].tok = "FRAME"

C16_PhasesOnlyForward ==
    [][ /\ PhaseRank(pc') >= PhaseRank(pc)
        /\ WireInOrder(written')
        /\ Len(written') >= Len(written)
        /\ SubSeq(written', 1, Len(written)) = written ]_vars

C16_Witness ==
    /\ pc = "fw_final"
    /\ NumTok("FRAME") = 3
    /\ NumTok("CHUNK") = 1

(* C17: the BOOT token is written at most once, as the last write, only    *)
(* after the final OK was read and the operator's stripped answer was "B"; *)
(* it is never written in a session that aborted, and any other answer     *)
(* leaves the session at the prompt with nothing written.                  *)
C17_BootOnlyAfterConfirmation ==
    /\ NumTok("BOOT") <= 1
    /\ HasTok("BOOT") =>
         /\ written[Len(written)] = [ tok |-> "BOOT", bytes |-> BOOT ]
         /\ finalResp = << OK >>
         /\ boot_q = << 66 >>
         /\ ~Aborted
         /\ pc \in { "returned", "exit" }
    /\ (pc = "boot_prompt" \/ Aborted) => ~HasTok("BOOT")

C17_Witness ==
    /\ HasTok("BOOT")
    /\ pc = "exit"

(* C19: when send_firmware has returned (every reply was accepted), the    *)
(* bytes written after the META acknowledgment followed by the data frame  *)
(* payloads in send order are the bundle file, byte for byte.              *)
C19_WholeBundleSentOnce ==
    pc \in { "boot_prompt", "returned", "exit" } =>
        /\ NumTok("METADATA") = 1
        /\ \A i \in TokIndexes("METADATA") :
             written[i].bytes \o ConcatData(FrameWrites) = firmware_blob

C19_Witness ==
    /\ pc = "exit"
    /\ PayloadLen = 768

----------------------------------------------------------------------------
(* The header fields of a written bundle.                                  *)

HeaderVersion(blob) == UnpackLE16(Slice(blob, 64, 66))
HeaderFirmwareLength(blob) == UnpackLE16(Slice(blob, 66, 68))
HeaderMessageLength(blob) == UnpackLE16(Slice(blob, 68, 70))

\* the inputs are within the limits of the bundle format
WithinLimits ==
    /\ p_version \in 0..MAX_VERSION
    /\ Len(p_message) <= MAX_MESSAGE_SIZE
    /\ Len(p_firmware) <= MAX_FIRMWARE_SIZE

(* C11: protect_firmware fails for a firmware of more than 32768 bytes, a  *)
(* message of more than 1024 characters and a version outside 0..65535,    *)
(* before any cryptographic operation and without writing the output file; *)
(* it does not fail at the limits 32768 and 1024.                          *)
C11_LimitsCheckedBeforeCrypto ==
    /\ ~WithinLimits =>
         /\ p_pc # "done"
         /\ p_ops = << >>
         /\ p_outfile = << >>
    /\ WithinLimits => p_pc # "failed"

(* C12 as stated: protect_firmware writes no bundle of version 0 (it has   *)
(* no override flag), and the session on a bundle of version 0 without     *)
(* --debug writes no META token, metadata or data frame.                   *)
SessionRejectsVersionZero ==
    (pc # "idle" /\ HeaderVersion(firmware_blob) = 0) =>
        /\ ~debug =>
             /\ pc \in { "start", "hs_wait", "verify", "md_start", "aborted" }
             /\ \A i \in DOMAIN written : written[i].tok = "UPDATE"
             /\ pc = "aborted" => error = "Invalid version request, aborting."
        /\ debug =>
             /\ ~(error = "Invalid version request, aborting." /\ mdResp = << >>)
             /\ pc \notin { "start", "hs_wait", "verify", "md_start", "aborted" }
                    => HasTok("META")

C12_VersionZeroNeverBundled ==
    /\ p_version = 0 => p_outfile = << >>
    /\ SessionRejectsVersionZero

(* C12 amended: protect_firmware packs version 0 like every other version; *)
(* the session on a bundle whose header version is 0 aborts without        *)
(* writing the META token, the metadata or any data frame unless --debug   *)
(* is set, and with --debug it goes on to the META token.                  *)
C12_VersionZeroRejectedBySession ==
    /\ (p_version = 0 /\ WithinLimits) => p_pc # "failed"
    /\ (p_version = 0 /\ p_outfile # << >>) => HeaderVersion(p_outfile) = 0
    /\ SessionRejectsVersionZero

C12_Witness ==
    /\ p_version = 0
    /\ ~debug
    /\ pc = "aborted"
    /\ error = "Invalid version request, aborting."
    /\ Len(written) = 1

(* C14: the written bundle has 64 + 6 + pad16(n) bytes, n = len(firmware)  *)
(* + len(message bytes) + 1 and pad16(n) = 16 * (n \div 16 + 1): the       *)
(* encrypted part is a non-empty multiple of 16 longer than n; 100 bytes   *)
(* of firmware and "hello" give 182 bytes.                                 *)
C14_BundleLength ==
    p_outfile # << >> =>
        LET n == Len(p_firmware) + Len(Encode(p_message)) + 1
            c == Len(p_outfile) - META_END
        IN  /\ Len(p_outfile) = 64 + 6 + 16 * ((n \div 16) + 1)
            /\ c % 16 = 0
            /\ c > n
            /\ c - n <= 16
            /\ (Len(p_firmware) = 100 /\ p_message = Hello) => Len(p_outfile) = 182

C14_Witness ==
    /\ p_pc = "done"
    /\ Len(p_firmware) = 15
    /\ p_message = << >>
    /\ Len(p_outfile) = 102

(* C18: the message_length field of the header is the number of message    *)
(* bytes in the plaintext, firmware_length + message_length + 1 is the     *)
(* length of the plaintext before padding, and no message of more than     *)
(* 1024 encoded bytes is accepted.                                         *)
C18_MessageLengthInBytes ==
    p_outfile # << >> =>
        /\ HeaderMessageLength(p_outfile) = Len(Encode(p_message))
        /\ HeaderFirmwareLength(p_outfile) + HeaderMessageLength(p_outfile) + 1
               = Len(Plaintext(p_firmware, p_message))
        /\ Len(Encode(p_message)) <= MAX_MESSAGE_SIZE

(* C20: the version and size that send_metadata parses from offsets 64..67 *)
(* of signature + metadata are the version and the firmware length given   *)
(* to protect_firmware.                                                    *)
C20_HeaderRoundTrip ==
    /\ p_outfile # << >> =>
         /\ ParsedVersion(MetadataArg(p_outfile)) = p_version
         /\ ParsedSize(MetadataArg(p_outfile)) = Len(p_firmware)
    /\ pc \notin { "idle", "start", "hs_wait", "verify" } =>
         /\ ParsedVersion(MetadataArg(firmware_blob)) = p_version
         /\ ParsedSize(MetadataArg(firmware_blob)) = Len(p_firmware)
         /\ (pc # "aborted" /\ pc # "md_start") =>
                ~VersionRejected(p_version, debug)

C20_Witness ==
    /\ p_pc = "done"
    /\ p_version = MAX_VERSION
    /\ Len(p_firmware) = MAX_FIRMWARE_SIZE

=============================================================================
